---------------------------- MODULE Spec2Model ----------------------------
(***************************************************************************)
(* A model of sgevents: the Event wrapper (sgevents/event.py) and the      *)
(* plugin utilities (sgevents/utils.py).                                    *)
(*                                                                          *)
(* Python values are tagged tuples: <<"None">>, <<"int", n>>,             *)
(* <<"str", s>>, <<"dict", d>>, <<"class", name>>.  The content s of a     *)
(* string is a sequence of symbols, each symbol a one-character string or  *)
(* an atomic run of word characters ("Shotgun"); a dict d is a function    *)
(* from its keys to Python values.                                          *)
(*                                                                          *)
(* The outcome of a call is <<"return", value>> or <<"raise", exception>>, *)
(* an exception being a tuple that starts with its type.                   *)
(***************************************************************************)
EXTENDS Integers, Sequences, FiniteSets, TLC

VARIABLES
    specialization_classes, \* event.py:14  the process-wide registry
    self,                   \* the Event instance under study, or PyNone
    queries,                \* find_one calls received by the API client
    sys_modules,            \* sys.modules, restricted to ad-hoc module names
    loads,                  \* imp.load_source calls that loaded a file
    arg,                    \* the argument of the last (or the pending) call
    ret                     \* the outcome of the last call

vars == <<specialization_classes, self, queries, sys_modules, loads, arg, ret>>

---------------------------------------------------------------------------
(* Python values *)

PyNone == <<"None">>
PyInt(n) == <<"int", n>>
PyStr(s) == <<"str", s>>
PyDict(d) == <<"dict", d>>
PyClass(c) == <<"class", c>>
PyClient(c) == <<"client", c>>

EmptyDict == <<>>

IsNone(v) == v[1] = "None"
IsStr(v) == v[1] = "str"
IsDict(v) == v[1] = "dict"

\* Python truth value testing, as used by `if x:` and `x or y`.
Truthy(v) ==
    CASE v[1] = "None" -> FALSE
      [] v[1] = "int" -> v[2] # 0
      [] v[1] = "str" -> v[2] # <<>>
      [] v[1] = "dict" -> DOMAIN v[2] # {}
      [] OTHER -> TRUE

PyOr(a, b) == IF Truthy(a) THEN a ELSE b

\* dict.get(key): the value, or None when the key is missing.
DictGet(d, k) == IF k \in DOMAIN d THEN d[k] ELSE PyNone

\* d[key] = value
DictSet(d, k, v) == [x \in DOMAIN d \cup {k} |-> IF x = k THEN v ELSE d[x]]

Return(v) == <<"return", v>>
Raise(e) == <<"raise", e>>
Returned(o) == o[1] = "return"
Raised(o) == o[1] = "raise"
NoCall == <<"none">>

---------------------------------------------------------------------------
(* Strings *)

\* The index of the first occurrence of symbol c in s, or 0.
RECURSIVE IndexFrom(_, _, _)
IndexFrom(s, c, i) ==
    IF i > Len(s) THEN 0
    ELSE IF s[i] = c THEN i
    ELSE IndexFrom(s, c, i + 1)

\* str.split(sep, maxsplit); maxsplit = -1 places no limit.
RECURSIVE Split(_, _, _)
Split(s, sep, maxsplit) ==
    LET i == IndexFrom(s, sep, 1) IN
    IF maxsplit = 0 \/ i = 0 THEN <<s>>
    ELSE <<SubSeq(s, 1, i - 1)>> \o Split(SubSeq(s, i + 1, Len(s)), sep, maxsplit - 1)

\* ' '.join(parts)
RECURSIVE Join(_, _)
Join(sep, parts) ==
    IF parts = <<>> THEN <<>>
    ELSE IF Len(parts) = 1 THEN parts[1]
    ELSE parts[1] \o sep \o Join(sep, Tail(parts))

---------------------------------------------------------------------------
(* Event: construction (event.py:14-57) *)

\* _specialization(subtype, entity_type, domain)(cls): the key it registers under.
SpecializationKey(domain, entity_type, subtype) == <<domain, entity_type, subtype>>

\* Event.__init__(raw, shotgun=None): a copy of raw, plus the client.
EventInit(cls, raw, shotgun) == [cls |-> cls, raw |-> raw, shotgun |-> shotgun]

\* A lookup that prefers the entity-agnostic registration.
LookupClassAgnosticFirst(reg, cls, domain, entity_type, subtype) ==
    PyOr(DictGet(reg, SpecializationKey(domain, PyNone, subtype)),
         PyOr(DictGet(reg, SpecializationKey(domain, entity_type, subtype)),
              cls))

\* Event.factory's lookup when the exact key is tried before the entity-agnostic one.
LookupClass(reg, cls, domain, entity_type, subtype) ==
    PyOr(DictGet(reg, SpecializationKey(domain, entity_type, subtype)),
         PyOr(DictGet(reg, SpecializationKey(domain, PyNone, subtype)),
              cls))

\* Event.factory(event), called on class cls with the registry reg.
factory(reg, cls, event) ==
    IF "event_type" \notin DOMAIN event THEN Raise(<<"KeyError">>)
    ELSE IF ~IsStr(event["event_type"]) THEN Raise(<<"AttributeError">>)
    ELSE
        LET parts == Split(event["event_type"][2], "_", 2) IN
        IF Len(parts) # 3 THEN Raise(<<"ValueError">>)
        ELSE
            LET subcls == LookupClass(reg, cls, PyStr(parts[1]), PyStr(parts[2]),
                                      PyStr(parts[3]))
            IN  Return(EventInit(subcls, event, PyNone))

---------------------------------------------------------------------------
(* Event: field accessors (event.py:4-11, 59-104) *)

\* event.get(key), the read every _item_property makes.
item(ev, key) == DictGet(ev.raw, key)

\* A property that subscripts the event instead of calling get.
ItemPropertyStrict(ev, key) ==
    IF key \in DOMAIN ev.raw THEN Return(ev.raw[key]) ELSE Raise(<<"KeyError">>)

\* _item_property(key) without a transform.
ItemProperty(ev, key) == Return(item(ev, key))

\* _item_property('event_type', transform=lambda x: x.split('_', maxsplit)[index]),
\* index counted from 0 as in the source; str.split on None is an AttributeError.
SplitProperty(ev, maxsplit, index) ==
    LET x == item(ev, "event_type") IN
    IF ~IsStr(x) THEN Raise(<<"AttributeError">>)
    ELSE LET parts == Split(x[2], "_", maxsplit) IN
         IF index + 1 > Len(parts) THEN Raise(<<"IndexError">>)
         ELSE Return(PyStr(parts[index + 1]))

Event_id(ev) == ItemProperty(ev, "id")
Event_created_at(ev) == ItemProperty(ev, "created_at")
Event_type(ev) == ItemProperty(ev, "event_type")
Event_user(ev) == ItemProperty(ev, "user")
Event_meta(ev) == ItemProperty(ev, "meta")
Event_entity(ev) == ItemProperty(ev, "entity")
Event_domain(ev) == SplitProperty(ev, 2, 0)
Event_subtype(ev) == SplitProperty(ev, 2, 2)
Event_entity_type(ev) == SplitProperty(ev, -1, 1)

AccessorNames ==
    {"id", "created_at", "type", "domain", "entity_type", "subtype", "user", "meta",
     "entity"}

\* getattr(event, name) for the nine field accessors.
Accessor(ev, name) ==
    CASE name = "id" -> Event_id(ev)
      [] name = "created_at" -> Event_created_at(ev)
      [] name = "type" -> Event_type(ev)
      [] name = "domain" -> Event_domain(ev)
      [] name = "entity_type" -> Event_entity_type(ev)
      [] name = "subtype" -> Event_subtype(ev)
      [] name = "user" -> Event_user(ev)
      [] name = "meta" -> Event_meta(ev)
      [] name = "entity" -> Event_entity(ev)

---------------------------------------------------------------------------
(* Event: entity_id, summary, __str__ (event.py:106-146) *)

\* d[key] on a dict d held in a Python value: KeyError when the key is missing.
Subscript(v, key) ==
    IF ~IsDict(v) THEN Raise(<<"TypeError">>)
    ELSE IF key \notin DOMAIN v[2] THEN Raise(<<"KeyError">>)
    ELSE Return(v[2][key])

\* `key in v`: None is not iterable.
Contains(v, key) ==
    IF ~IsDict(v) THEN Raise(<<"TypeError">>)
    ELSE Return(key \in DOMAIN v[2])

\* Event.entity_id
entity_id(ev) ==
    IF Truthy(item(ev, "entity")) THEN Subscript(item(ev, "entity"), "id")
    ELSE
        LET has == Contains(item(ev, "meta"), "entity_id") IN
        IF Raised(has) THEN has
        ELSE IF ~has[2] THEN Return(PyNone)
        ELSE
            LET st == Event_subtype(ev) IN
            IF Raised(st) THEN st
            ELSE IF st[2] = PyStr(<<"Change">>)
                    /\ "actual_attribute_changed" \in DOMAIN item(ev, "meta")[2]
                 THEN Return(PyNone)
                 ELSE Return(item(ev, "meta")[2]["entity_id"])

Digits == <<"0", "1", "2", "3", "4", "5", "6", "7", "8", "9">>

\* The decimal digits of a natural number.
RECURSIVE IntStr(_)
IntStr(n) ==
    IF n < 10 THEN <<Digits[n + 1]>>
    ELSE IntStr(n \div 10) \o <<Digits[(n % 10) + 1]>>

\* str(v), as '%s' renders it.
Str(v) ==
    CASE v[1] = "None" -> <<"None">>
      [] v[1] = "int" -> IntStr(v[2])
      [] v[1] = "str" -> v[2]

\* '%s:%d' % (a, b): %d of anything but a number is a TypeError.
FormatRef(word, a, b) ==
    IF b[1] # "int" THEN Raise(<<"TypeError">>)
    ELSE Return(<<word, " ">> \o Str(a) \o <<":">> \o IntStr(b[2]))

\* '("%s")' % name
FormatName(name) == <<"(", "\"">> \o Str(name) \o <<"\"", ")">>

\* The parts summary appends for a present reference (entity or user).
RefParts(word, ref) ==
    LET t == Subscript(ref, "type")
        i == Subscript(ref, "id")
    IN  IF Raised(t) THEN t
        ELSE IF Raised(i) THEN i
        ELSE LET f == FormatRef(word, t[2], i[2]) IN
             IF Raised(f) THEN f
             ELSE IF Truthy(DictGet(ref[2], "name"))
                  THEN Return(<<f[2], FormatName(ref[2]["name"])>>)
                  ELSE Return(<<f[2]>>)

\* The part summary appends when the entity is not present.
UnknownEntityParts(ev) ==
    LET t == Event_entity_type(ev)
        i == entity_id(ev)
    IN  IF Raised(t) THEN t
        ELSE IF Raised(i) THEN i
        ELSE Return(<<<<"on", " ">> \o Str(t[2]) \o <<":">>
                      \o Str(PyOr(i[2], PyStr(<<"unknown">>)))>>)

\* Event.summary
summary(ev) ==
    LET e == IF Truthy(item(ev, "entity")) THEN RefParts("on", item(ev, "entity"))
             ELSE UnknownEntityParts(ev)
        u == IF Truthy(item(ev, "user")) THEN RefParts("by", item(ev, "user"))
             ELSE Return(<<>>)
    IN  IF Raised(e) THEN e
        ELSE IF Raised(u) THEN u
        ELSE IF ~IsStr(item(ev, "event_type")) THEN Raise(<<"TypeError">>)
        ELSE Return(PyStr(Join(<<" ">>, <<item(ev, "event_type")[2]>> \o e[2] \o u[2])))

\* Event.__str__
Event_str(ev) ==
    LET s == summary(ev) IN
    IF Raised(s) THEN s
    ELSE Return(PyStr(<<"<", "Event", " ">> \o s[2][2] \o <<">">>))

---------------------------------------------------------------------------
(* Event: find_retired_entity (event.py:151-167) *)

BackrefFilter(id) == <<"$FROM$EventLogEntry.entity.id", "is", id>>

\* The find_one call the client receives.
FindOne(client, entity_type, id) == <<client, "find_one", entity_type, BackrefFilter(id)>>

\* A find_retired_entity that returns the match without storing it.
find_retired_entityNoCache(ev, qs, resp) ==
    IF Truthy(item(ev, "entity"))
    THEN [out |-> Return(item(ev, "entity")), ev |-> ev, qs |-> qs]
    ELSE IF IsNone(ev.shotgun)
    THEN [out |-> Raise(<<"AttributeError">>), ev |-> ev, qs |-> qs]
    ELSE
        LET asked == Append(qs, FindOne(ev.shotgun, Event_entity_type(ev)[2],
                                        item(ev, "id")))
        IN  IF ~Truthy(resp)
            THEN [out |-> Raise(<<"ValueError", Event_entity_type(ev)[2], item(ev, "id")>>),
                  ev |-> ev, qs |-> asked]
            ELSE [out |-> Return(resp), ev |-> ev, qs |-> asked]

\* A find_retired_entity that stores the answer before looking at it.
find_retired_entityStoreFirst(ev, qs, resp) ==
    IF Truthy(item(ev, "entity"))
    THEN [out |-> Return(item(ev, "entity")), ev |-> ev, qs |-> qs]
    ELSE IF IsNone(ev.shotgun)
    THEN [out |-> Raise(<<"AttributeError">>), ev |-> ev, qs |-> qs]
    ELSE
        LET asked == Append(qs, FindOne(ev.shotgun, Event_entity_type(ev)[2],
                                        item(ev, "id")))
            cached == [ev EXCEPT !.raw = DictSet(ev.raw, "entity", resp)]
        IN  IF ~Truthy(resp)
            THEN [out |-> Raise(<<"ValueError", Event_entity_type(ev)[2], item(ev, "id")>>),
                  ev |-> cached, qs |-> asked]
            ELSE [out |-> Return(resp), ev |-> cached, qs |-> asked]

\* Event.find_retired_entity() on ev, with qs the calls the client has received so
\* far and resp what find_one answers if asked.  The record holds the outcome, the
\* event after the call and the calls received after it.
find_retired_entity(ev, qs, resp) ==
    IF Truthy(item(ev, "entity"))
    THEN [out |-> Return(item(ev, "entity")), ev |-> ev, qs |-> qs]
    ELSE IF IsNone(ev.shotgun)
    THEN [out |-> Raise(<<"AttributeError">>), ev |-> ev, qs |-> qs]
    ELSE
        LET t == Event_entity_type(ev) IN
        IF Raised(t) THEN [out |-> t, ev |-> ev, qs |-> qs]
        ELSE
            LET asked == Append(qs, FindOne(ev.shotgun, t[2], item(ev, "id"))) IN
            IF ~Truthy(resp)
            THEN [out |-> IF item(ev, "id")[1] = "int"
                          THEN Raise(<<"ValueError", t[2], item(ev, "id")>>)
                          ELSE Raise(<<"TypeError">>),
                  ev |-> ev, qs |-> asked]
            ELSE LET cached == [ev EXCEPT !.raw = DictSet(ev.raw, "entity", resp)] IN
                 [out |-> Return(item(cached, "entity")), ev |-> cached, qs |-> asked]

---------------------------------------------------------------------------
(* Inputs *)

MaxRegistered == 2
MaxQueries == 2

Absent == <<"absent">>

\* The dict holding the keys of f whose value is not Absent.
MkDict(f) == [k \in {x \in DOMAIN f : f[x] # Absent} |-> f[k]]

\* "{domain}_{entityType}_{subtype}"
EventTypeOf(d, e, s) == d \o <<"_">> \o e \o <<"_">> \o s

Domains == {<<"Shotgun">>, <<"Other">>}
EntityTypes == {<<"Shot">>, <<"Asset">>}
Subtypes == {<<"Change">>, <<"x", "_", "Change">>}
Classes == {PyClass("A"), PyClass("B")}
BaseClass == PyClass("Event")

Shotgun == PyClient("sg")

FactoryRecord(t) == MkDict([event_type |-> t, id |-> PyInt(3)])

FactoryRecords ==
    {FactoryRecord(PyStr(EventTypeOf(d, e, s))) :
        d \in Domains, e \in EntityTypes, s \in Subtypes}
    \cup {FactoryRecord(PyStr(<<"Shotgun", "_", "Shot">>)), FactoryRecord(PyNone),
          FactoryRecord(Absent)}

ShotRef == [type |-> PyStr(<<"Shot">>), id |-> PyInt(7)]
NamedShotRef == [type |-> PyStr(<<"Shot">>), id |-> PyInt(7),
                 name |-> PyStr(<<"Bunny_010">>)]
UserRef == [type |-> PyStr(<<"HumanUser">>), id |-> PyInt(13)]
NamedUserRef == [type |-> PyStr(<<"HumanUser">>), id |-> PyInt(13),
                 name |-> PyStr(<<"Alice">>)]

EventTypes ==
    {EventTypeOf(<<"Shotgun">>, <<"Shot">>, <<"Change">>),
     EventTypeOf(<<"Shotgun">>, <<"Shot">>, <<"New">>),
     EventTypeOf(<<"Shotgun">>, <<"Asset">>, <<"x", "_", "Change">>)}

Entities == {Absent, PyNone, PyDict(ShotRef), PyDict(NamedShotRef)}
Users == {Absent, PyDict(UserRef), PyDict(NamedUserRef)}
Metas ==
    {Absent, PyNone, PyDict(EmptyDict),
     PyDict([entity_id |-> PyInt(42)]),
     PyDict([entity_id |-> PyInt(0)]),
     PyDict([actual_attribute_changed |-> PyStr(<<"sg_status">>)]),
     PyDict([entity_id |-> PyInt(42),
             actual_attribute_changed |-> PyStr(<<"sg_status">>)])}

\* Records as the event log returns them: id, created_at and a three-segment
\* event_type always there; entity, user and meta possibly missing.
EventRecords ==
    {MkDict([id |-> PyInt(3), created_at |-> PyStr(<<"2015-06-01">>),
             event_type |-> PyStr(t), entity |-> e, user |-> u, meta |-> m]) :
        t \in EventTypes, e \in Entities, u \in Users, m \in Metas}

\* Any mapping, whichever keys are missing and however event_type is shaped.
LooseRecords ==
    {MkDict([id |-> i, created_at |-> c, event_type |-> t, entity |-> e, user |-> u,
             meta |-> m]) :
        i \in {Absent, PyInt(3)}, c \in {Absent, PyStr(<<"2015-06-01">>)},
        t \in {Absent, PyNone, PyStr(<<"Shotgun">>), PyStr(<<"Shotgun", "_", "Shot">>)}
              \cup {PyStr(x) : x \in EventTypes},
        e \in {Absent, PyDict(ShotRef)}, u \in {Absent, PyDict(UserRef)},
        m \in {Absent, PyDict(EmptyDict)}}

\* What find_one may answer.
Responses == {PyNone, PyDict(ShotRef)}

NoEvent == [cls |-> PyNone, raw |-> EmptyDict, shotgun |-> PyNone]

---------------------------------------------------------------------------
(* Actions *)

\* @_specialization(subtype, entity_type, domain) on class cls (event.py:16-20).
Register(domain, entity_type, subtype, cls) ==
    LET key == SpecializationKey(domain, entity_type, subtype) IN
    /\ key \in DOMAIN specialization_classes
       \/ Cardinality(DOMAIN specialization_classes) < MaxRegistered
    /\ specialization_classes' = DictSet(specialization_classes, key, cls)
    /\ arg' = <<"register", key, cls>>
    /\ ret' = Return(cls)
    /\ UNCHANGED <<self, queries, sys_modules, loads>>

\* Event.factory(rec)
Factory(rec) ==
    LET o == factory(specialization_classes, BaseClass, rec) IN
    /\ arg' = <<"factory", rec>>
    /\ ret' = o
    /\ self' = IF Returned(o) THEN o[2] ELSE self
    /\ UNCHANGED <<specialization_classes, queries, sys_modules, loads>>

\* Event(rec, shotgun=sg)
Construct(rec, sg) ==
    /\ self = NoEvent
    /\ self' = EventInit(BaseClass, rec, sg)
    /\ arg' = <<"Event", rec, sg>>
    /\ ret' = Return(PyNone)
    /\ UNCHANGED <<specialization_classes, queries, sys_modules, loads>>

\* self.<name> for a field accessor
Read(name) ==
    /\ self # NoEvent
    /\ arg' = <<"read", name>>
    /\ ret' = Accessor(self, name)
    /\ UNCHANGED <<specialization_classes, self, queries, sys_modules, loads>>

\* self.entity_id
ReadEntityId ==
    /\ self # NoEvent
    /\ arg' = <<"entity_id">>
    /\ ret' = entity_id(self)
    /\ UNCHANGED <<specialization_classes, self, queries, sys_modules, loads>>

\* self.summary
ReadSummary ==
    /\ self # NoEvent
    /\ arg' = <<"summary">>
    /\ ret' = summary(self)
    /\ UNCHANGED <<specialization_classes, self, queries, sys_modules, loads>>

\* str(self)
ToStr ==
    /\ self # NoEvent
    /\ arg' = <<"str">>
    /\ ret' = Event_str(self)
    /\ UNCHANGED <<specialization_classes, self, queries, sys_modules, loads>>

\* self.dumps(pretty): the record goes to json.dumps, whose text is left opaque
Dumps(pretty) ==
    /\ self # NoEvent
    /\ arg' = <<"dumps", pretty>>
    /\ ret' = Return(<<"json", self.raw, pretty>>)
    /\ UNCHANGED <<specialization_classes, self, queries, sys_modules, loads>>

\* self.find_retired_entity(), the client answering resp if asked
FindRetiredEntity(resp) ==
    LET r == find_retired_entity(self, queries, resp) IN
    /\ self # NoEvent
    /\ Len(r.qs) <= MaxQueries
    /\ arg' = <<"find_retired_entity", resp>>
    /\ ret' = r.out
    /\ self' = r.ev
    /\ queries' = r.qs
    /\ UNCHANGED <<specialization_classes, sys_modules, loads>>

---------------------------------------------------------------------------
(* Specifications *)

InitCommon ==
    /\ specialization_classes = EmptyDict
    /\ queries = <<>>
    /\ sys_modules = EmptyDict
    /\ loads = <<>>
    /\ arg = NoCall
    /\ ret = NoCall

\* The registry and the factory.
InitFactory == InitCommon /\ self = NoEvent

NextFactory ==
    \/ \E d \in Domains, e \in {PyNone} \cup {PyStr(x) : x \in EntityTypes},
          s \in Subtypes, c \in Classes :
            Register(PyStr(d), e, PyStr(s), c)
    \/ \E rec \in FactoryRecords : Factory(rec)

SpecFactory == InitFactory /\ [][NextFactory]_vars

\* One event of the log, from its construction on.
InitEvent == InitCommon /\ self = NoEvent

NextEvent ==
    \/ self = NoEvent /\ \E rec \in EventRecords : Factory(rec)
    \/ \E rec \in EventRecords, sg \in {PyNone, Shotgun} : Construct(rec, sg)
    \/ \E name \in AccessorNames : Read(name)
    \/ ReadEntityId
    \/ ReadSummary
    \/ ToStr
    \/ \E pretty \in BOOLEAN : Dumps(pretty)
    \/ \E resp \in Responses : FindRetiredEntity(resp)

SpecEvent == InitEvent /\ [][NextEvent]_vars

\* The field accessors over any mapping.
InitAccessors ==
    /\ InitCommon
    /\ \E rec \in LooseRecords : self = EventInit(BaseClass, rec, PyNone)

NextAccessors == \E name \in AccessorNames : Read(name)

SpecAccessors == InitAccessors /\ [][NextAccessors]_vars

---------------------------------------------------------------------------
(* Properties of the Event model *)

\* The segments an event type was built from.
SegmentsOf(t) ==
    CHOOSE x \in Domains \X EntityTypes \X (Subtypes \cup {<<"New">>}) :
        t = PyStr(EventTypeOf(x[1], x[2], x[3]))

\* The class the two-tier lookup is to yield for (d, e, s).
ExpectedClass(reg, d, e, s) ==
    IF <<PyStr(d), PyStr(e), PyStr(s)>> \in DOMAIN reg
    THEN reg[<<PyStr(d), PyStr(e), PyStr(s)>>]
    ELSE IF <<PyStr(d), PyNone, PyStr(s)>> \in DOMAIN reg
    THEN reg[<<PyStr(d), PyNone, PyStr(s)>>]
    ELSE BaseClass

\* C1: Event.factory returns an instance of the class registered under the exact
\* key (domain, entityType, subtype) when there is one, otherwise of the class
\* registered under (domain, None, subtype) when there is one, otherwise of Event;
\* the instance holds the raw record.
C1_FactoryPicksClass ==
    \A d \in Domains, e \in EntityTypes, s \in Subtypes :
        arg = <<"factory", FactoryRecord(PyStr(EventTypeOf(d, e, s)))>>
        => /\ Returned(ret)
           /\ ret[2].cls = ExpectedClass(specialization_classes, d, e, s)
           /\ ret[2].raw = arg[2]

\* C1, witness: an exact and an entity-agnostic registration of different classes both match
\* the event, and the factory has returned the exact one.
C1_Witness ==
    \E d \in Domains, e \in EntityTypes, s \in Subtypes :
        LET exact == <<PyStr(d), PyStr(e), PyStr(s)>>
            agnostic == <<PyStr(d), PyNone, PyStr(s)>>
        IN  /\ exact \in DOMAIN specialization_classes
            /\ agnostic \in DOMAIN specialization_classes
            /\ specialization_classes[exact] # specialization_classes[agnostic]
            /\ arg = <<"factory", FactoryRecord(PyStr(EventTypeOf(d, e, s)))>>
            /\ Returned(ret)
            /\ ret[2].cls = specialization_classes[exact]

\* The entity id the documentation promises.
ClaimedEntityId(ev) ==
    LET entity == item(ev, "entity")
        meta == item(ev, "meta")
    IN  IF Truthy(entity) THEN entity[2]["id"]
        ELSE IF IsDict(meta) /\ "entity_id" \in DOMAIN meta[2]
        THEN IF /\ SegmentsOf(ev.raw["event_type"])[3] = <<"Change">>
                /\ "actual_attribute_changed" \in DOMAIN meta[2]
             THEN PyNone
             ELSE meta[2]["entity_id"]
        ELSE PyNone

\* C2: entity_id never fails: it returns the entity's id if the entity is present,
\* else meta's entity_id (absent for a Change with actual_attribute_changed), and
\* absent in every other case, a missing meta included.
C2_EntityIdNeverFails ==
    arg = <<"entity_id">> => ret = Return(ClaimedEntityId(self))

\* The text the documentation promises for summary.
ClaimedRef(word, ref) ==
    <<word, " ">> \o ref[2]["type"][2] \o <<":">> \o IntStr(ref[2]["id"][2])
    \o (IF "name" \in DOMAIN ref[2]
        THEN <<" ", "(", "\"">> \o ref[2]["name"][2] \o <<"\"", ")">>
        ELSE <<>>)

ClaimedSummary(ev) ==
    ev.raw["event_type"][2]
    \o <<" ">>
    \o (IF Truthy(item(ev, "entity")) THEN ClaimedRef("on", item(ev, "entity"))
        ELSE <<"on", " ">> \o SegmentsOf(ev.raw["event_type"])[2] \o <<":">>
             \o (IF ClaimedEntityId(ev) = PyNone THEN <<"unknown">>
                 ELSE IntStr(ClaimedEntityId(ev)[2])))
    \o (IF Truthy(item(ev, "user")) THEN <<" ">> \o ClaimedRef("by", item(ev, "user"))
        ELSE <<>>)

\* C9: summary is the single-space join of the type, the entity segment ("unknown"
\* standing for an absent entity_id) and the user segment, for every event; str()
\* wraps it as "<Event {summary}>".
C9_SummaryText ==
    /\ arg = <<"summary">> => ret = Return(PyStr(ClaimedSummary(self)))
    /\ arg = <<"str">>
       => ret = Return(PyStr(<<"<", "Event", " ">> \o ClaimedSummary(self) \o <<">">>))

\* C5: the event the factory returns is associated to the API client.
C5_FactoryKeepsClient ==
    (arg[1] = "factory" /\ Returned(ret)) => ret[2].shotgun = Shotgun

\* What a find_retired_entity step is to do when the entity is present.
FindReturnsPresent ==
    /\ queries' = queries
    /\ self' = self
    /\ ret' = Return(item(self, "entity"))

\* What a find_retired_entity step is to do when the entity is absent.
FindAsksOnce(resp) ==
    /\ queries' = Append(queries,
            FindOne(self.shotgun, PyStr(SegmentsOf(self.raw["event_type"])[2]),
                    self.raw["id"]))
    /\ Truthy(resp)
       => /\ item(self', "entity") = resp
          /\ ret' = Return(resp)

C4_NotFoundAndOnlyMutation ==
    [][/\ (/\ arg' = <<"find_retired_entity", PyNone>>
           /\ queries' # queries)
          => /\ ret' = Raise(<<"ValueError",
                               PyStr(SegmentsOf(self.raw["event_type"])[2]),
                               self.raw["id"]>>)
             /\ self' = self
       /\ (self # NoEvent /\ self' # self)
          => /\ arg'[1] = "find_retired_entity"
             /\ Truthy(arg'[2])
             /\ ~Truthy(item(self, "entity"))
             /\ self' = [self EXCEPT !.raw = DictSet(self.raw, "entity", arg'[2])]
      ]_vars

\* C4, witness: the client was asked, found nothing, and the call raised.
C4_Witness ==
    /\ arg = <<"find_retired_entity", PyNone>>
    /\ ret = Raise(<<"ValueError", PyStr(<<"Shot">>), PyInt(3)>>)
    /\ Len(queries) = 1
    /\ ~Truthy(item(self, "entity"))

PlainAccessors == {"id", "created_at", "type", "user", "meta", "entity"}

\* The key of the record an accessor reads.
KeyRead(name) ==
    IF name \in {"type", "domain", "entity_type", "subtype"} THEN "event_type" ELSE name

\* C6 as stated: reading any of the nine accessors never fails, returns absent when
\* the accessor's key is missing, and leaves the event as it was.
C6_EveryAccessorNeverFails ==
    [][arg'[1] = "read"
       => /\ self' = self
          /\ Returned(ret')
          /\ KeyRead(arg'[2]) \notin DOMAIN self.raw => ret' = Return(PyNone)
      ]_vars

\* The underscore-separated pieces an event type was written with.
PiecesOf(t) ==
    IF t = PyStr(<<"Shotgun">>) THEN <<<<"Shotgun">>>>
    ELSE IF t = PyStr(<<"Shotgun", "_", "Shot">>) THEN <<<<"Shotgun">>, <<"Shot">>>>
    ELSE SegmentsOf(t)

\* What domain (n = 1), entity_type (n = 2) and subtype (n = 3) are to yield.
ExpectedSegment(ev, n) ==
    IF ~IsStr(item(ev, "event_type")) THEN Raise(<<"AttributeError">>)
    ELSE IF n > Len(PiecesOf(ev.raw["event_type"])) THEN Raise(<<"IndexError">>)
    ELSE Return(PyStr(PiecesOf(ev.raw["event_type"])[n]))

\* C6, amended: id, created_at, type, user, meta and entity never fail and return
\* the value under their key, absent when the key is missing; domain, entity_type
\* and subtype return the first, second and third segment of event_type and fail
\* when event_type is missing or has no such segment; no read changes the event.
C6_PlainAccessorsNeverFail ==
    [][arg'[1] = "read"
       => /\ self' = self
          /\ arg'[2] \in PlainAccessors
             => ret' = Return(IF KeyRead(arg'[2]) \in DOMAIN self.raw
                              THEN self.raw[KeyRead(arg'[2])]
                              ELSE PyNone)
          /\ arg'[2] = "domain" => ret' = ExpectedSegment(self, 1)
          /\ arg'[2] = "entity_type" => ret' = ExpectedSegment(self, 2)
          /\ arg'[2] = "subtype" => ret' = ExpectedSegment(self, 3)
      ]_vars

\* C6, witness: type was read from a record that has no event_type, and came back absent.
C6_Witness ==
    /\ arg = <<"read", "type">>
    /\ "event_type" \notin DOMAIN self.raw
    /\ ret = Return(PyNone)

---------------------------------------------------------------------------
(* utils.py: regular expressions *)

\* The characters of the model that \W matches; every other symbol is a word
\* character (a letter, a digit, "_") or a run of them.
NonWordChars == {".", "/", ":", "-", "\n", " "}

IsWord(c) == c \notin NonWordChars

\* The first index from i on that holds a word character, or Len(s) + 1.
RECURSIVE SkipNonWord(_, _)
SkipNonWord(s, i) ==
    IF i > Len(s) \/ IsWord(s[i]) THEN i ELSE SkipNonWord(s, i + 1)

\* re.sub('\W+', repl, s) from index i on: each maximal run of non-word characters
\* becomes one repl.
RECURSIVE ReSubNonWord(_, _, _)
ReSubNonWord(s, repl, i) ==
    IF i > Len(s) THEN <<>>
    ELSE IF IsWord(s[i]) THEN <<s[i]>> \o ReSubNonWord(s, repl, i + 1)
    ELSE repl \o ReSubNonWord(s, repl, SkipNonWord(s, i))

\* Where `$` may match: at the end, or before a newline that ends the string.
EndPoints(s) ==
    {Len(s)} \cup (IF Len(s) > 0 /\ s[Len(s)] = "\n" THEN {Len(s) - 1} ELSE {})

\* What the first group may hold: [\w\.] for the dotted form, `.` (anything but a
\* newline) for the path form.
HeadChar(c, dotted) == IF dotted THEN IsWord(c) \/ c = "." ELSE c # "\n"

\* re.match(r'([\w\.]+):([\w]+)$', s) when dotted, re.match(r'(.+):([\w]+)$', s)
\* when not: the groups of the match, or <<>> for no match.  The second group holds
\* no colon, so the colon of a match is the last one before the end point.
MatchSpec(s, dotted) ==
    LET hits == {x \in (1..Len(s)) \X EndPoints(s) :
                    /\ s[x[1]] = ":"
                    /\ 1 < x[1] /\ x[1] < x[2]
                    /\ \A j \in 1..(x[1] - 1) : HeadChar(s[j], dotted)
                    /\ \A j \in (x[1] + 1)..x[2] : IsWord(s[j])}
    IN  IF hits = {} THEN <<>>
        ELSE LET x == CHOOSE y \in hits : \A z \in hits : z[1] <= y[1]
             IN  <<SubSeq(s, 1, x[1] - 1), SubSeq(s, x[1] + 1, x[2])>>

---------------------------------------------------------------------------
(* utils.py: get_adhoc_module, get_func (utils.py:9-41) *)

\* hashlib.md5(path).hexdigest()[:8], taken to tell the paths of the model apart.
Md5Prefix(path) == <<"md5", path>>

\* The name the module of a path is registered under.
AdhocName(path) == <<ReSubNonWord(path, <<"_", "_">>, 1), "_", Md5Prefix(path)>>

\* imp.load_source(name, path), the n-th load: the module object it creates.
LoadedModule(path, n) == <<"module", path, n>>

\* A get_adhoc_module that loads the file whatever sys.modules holds.
get_adhoc_moduleAlwaysLoad(mods, lds, path, ok) ==
    IF ~ok THEN [out |-> Raise(<<"IOError">>), mods |-> mods, lds |-> lds]
    ELSE [out |-> Return(LoadedModule(path, Len(lds) + 1)),
          mods |-> DictSet(mods, AdhocName(path), LoadedModule(path, Len(lds) + 1)),
          lds |-> Append(lds, <<"load_source", path>>)]

\* get_adhoc_module(path) with sys.modules = mods and lds the loads and imports
\* made so far; ok tells whether the file can be loaded.
get_adhoc_module(mods, lds, path, ok) ==
    IF AdhocName(path) \in DOMAIN mods
    THEN [out |-> Return(mods[AdhocName(path)]), mods |-> mods, lds |-> lds]
    ELSE IF ~ok THEN [out |-> Raise(<<"IOError">>), mods |-> mods, lds |-> lds]
    ELSE [out |-> Return(LoadedModule(path, Len(lds) + 1)),
          mods |-> DictSet(mods, AdhocName(path), LoadedModule(path, Len(lds) + 1)),
          lds |-> Append(lds, <<"load_source", path>>)]

\* getattr(module, func_name)
GetAttr(module, func_name) == <<"getattr", module, func_name>>

InvalidSpec(spec) == <<"ValueError", "spec must be like", spec>>

\* get_func(spec); ok tells whether the module named can be imported or loaded.
get_func(mods, lds, spec, ok) ==
    IF ~IsStr(spec) THEN [out |-> Return(spec), mods |-> mods, lds |-> lds]
    ELSE
        LET m1 == MatchSpec(spec[2], TRUE)
            m2 == MatchSpec(spec[2], FALSE)
        IN  IF m1 # <<>>
            THEN IF ok
                 THEN [out |-> Return(GetAttr(<<"imported", m1[1]>>, m1[2])),
                       mods |-> mods, lds |-> Append(lds, <<"import", m1[1]>>)]
                 ELSE [out |-> Raise(<<"ImportError">>), mods |-> mods, lds |-> lds]
            ELSE IF m2 # <<>> /\ \E j \in 1..Len(m2[1]) : m2[1][j] = "/"
            THEN LET r == get_adhoc_module(mods, lds, m2[1], ok) IN
                 [out |-> IF Returned(r.out) THEN Return(GetAttr(r.out[2], m2[2]))
                          ELSE r.out,
                  mods |-> r.mods, lds |-> r.lds]
            ELSE [out |-> Raise(InvalidSpec(spec)), mods |-> mods, lds |-> lds]

---------------------------------------------------------------------------
(* utils.py: the loader and the resolver as a state machine *)

MaxSpecLen == 4

SpecChars == {"a", ".", "/", ":", "-", "\n"}

\* Every string of at most MaxSpecLen characters, and one callable.
FuncSpecs ==
    {PyStr(x) : x \in UNION {[1..n -> SpecChars] : n \in 0..MaxSpecLen}}
    \cup {<<"function", "handle_event">>}

Paths ==
    {<<"/", "a", ".", "py">>, <<"/", "b", ".", "py">>, <<"a", "/", "b">>,
     <<"a", ".", "b">>}

\* get_adhoc_module(path)
GetAdhocModule(path, ok) ==
    LET r == get_adhoc_module(sys_modules, loads, path, ok) IN
    /\ arg' = <<"get_adhoc_module", path, ok>>
    /\ ret' = r.out
    /\ sys_modules' = r.mods
    /\ loads' = r.lds
    /\ UNCHANGED <<specialization_classes, self, queries>>

\* get_func(spec), for the call that arg holds
GetFunc ==
    LET r == get_func(sys_modules, loads, arg[2], arg[3]) IN
    /\ arg[1] = "get_func"
    /\ ret = NoCall
    /\ ret' = r.out
    /\ sys_modules' = r.mods
    /\ loads' = r.lds
    /\ UNCHANGED <<specialization_classes, self, queries, arg>>

InitAdhoc == InitCommon /\ self = NoEvent

NextAdhoc == \E path \in Paths, ok \in BOOLEAN : GetAdhocModule(path, ok)

SpecAdhoc == InitAdhoc /\ [][NextAdhoc]_vars

InitGetFunc ==
    /\ specialization_classes = EmptyDict
    /\ self = NoEvent
    /\ queries = <<>>
    /\ sys_modules = EmptyDict
    /\ loads = <<>>
    /\ \E spec \in FuncSpecs, ok \in BOOLEAN : arg = <<"get_func", spec, ok>>
    /\ ret = NoCall

NextGetFunc == GetFunc

SpecGetFunc == InitGetFunc /\ [][NextGetFunc]_vars

---------------------------------------------------------------------------
(* Properties of the loader and the resolver *)

\* The string is P:F with F a non-empty run of word characters and P non-empty.
SplitsAt(s, i) ==
    /\ s[i] = ":"
    /\ 1 < i /\ i < Len(s)
    /\ \A j \in (i + 1)..Len(s) : IsWord(s[j])

DottedForm(s) ==
    \E i \in 1..Len(s) : SplitsAt(s, i) /\ \A j \in 1..(i - 1) : IsWord(s[j]) \/ s[j] = "."

PathForm(s) ==
    \E i \in 1..Len(s) : SplitsAt(s, i) /\ \E j \in 1..(i - 1) : s[j] = "/"

\* C7: get_func returns a non-string unchanged, imports for the dotted form, loads
\* through get_adhoc_module for the path form, and for every other string raises
\* the error naming the two forms without importing or loading anything.
C7_GetFuncClassifies ==
    (arg[1] = "get_func" /\ ret # NoCall)
    => LET spec == arg[2] IN
       IF ~IsStr(spec) THEN ret = Return(spec) /\ loads = <<>>
       ELSE IF DottedForm(spec[2])
       THEN arg[3] => /\ Returned(ret)
                      /\ ret[2][2][1] = "imported"
                      /\ Len(loads) = 1 /\ loads[1][1] = "import"
       ELSE IF PathForm(spec[2])
       THEN arg[3] => /\ Returned(ret)
                      /\ ret[2][2][1] = "module"
                      /\ Len(loads) = 1 /\ loads[1][1] = "load_source"
       ELSE ret = Raise(InvalidSpec(spec)) /\ loads = <<>> /\ sys_modules = EmptyDict

\* The classification holds of every string without a newline.
GetFuncClassifiesOneLine ==
    (arg[1] = "get_func" /\ IsStr(arg[2]) /\ \E j \in 1..Len(arg[2][2]) : arg[2][2][j] = "\n")
    \/ C7_GetFuncClassifies

IndexOfLoad(path) == CHOOSE i \in 1..Len(loads) : loads[i] = <<"load_source", path>>

\* C10: a file is loaded at most once; the first call for a path that can be loaded
\* loads it and registers the module under the derived name; every later call with
\* that path returns that module and loads nothing.
C10_LoadedOnce ==
    [][/\ \A i, j \in 1..Len(loads') : loads'[i] = loads'[j] => i = j
       /\ \A path \in Paths, ok \in BOOLEAN :
            arg' = <<"get_adhoc_module", path, ok>>
            => IF \E i \in 1..Len(loads) : loads[i] = <<"load_source", path>>
               THEN /\ ret' = Return(LoadedModule(path, IndexOfLoad(path)))
                    /\ loads' = loads
                    /\ sys_modules' = sys_modules
               ELSE ok => /\ loads' = Append(loads, <<"load_source", path>>)
                          /\ ret' = Return(LoadedModule(path, Len(loads')))
                          /\ AdhocName(path) \in DOMAIN sys_modules'
                          /\ sys_modules'[AdhocName(path)] = ret'[2]
      ]_vars

\* C10, witness: a path was loaded first, another after it, and a later call for the first path
\* (its file gone by then) returned the first module.
C10_Witness ==
    \E path \in Paths :
        /\ arg = <<"get_adhoc_module", path, FALSE>>
        /\ ret = Return(LoadedModule(path, 1))
        /\ Len(loads) = 2

---------------------------------------------------------------------------
(* utils.py: envvars_for_event (utils.py:44-52) *)

\* str.upper(), symbol by symbol
UpperChar(c) ==
    CASE c = "a" -> "A"
      [] c = "b" -> "B"
      [] OTHER -> c

Upper(s) == [i \in 1..Len(s) |-> UpperChar(s[i])]

\* A name that keeps the case of the key.
EnvNameKeepCase(prefix, k) == prefix \o <<"_">> \o ReSubNonWord(k, <<"_">>, 1)

\* prefix + '_' + re.sub('\W+', '_', k.upper())
EnvName(prefix, k) == prefix \o <<"_">> \o ReSubNonWord(Upper(k), <<"_">>, 1)

\* envvars.update(other)
DictUpdate(d, other) ==
    [x \in DOMAIN d \cup DOMAIN other |-> IF x \in DOMAIN other THEN other[x] ELSE d[x]]

\* The loop of envvars_for_event(event, prefix) from the i-th key of order on,
\* order being the order in which the dicts hand out their keys and envvars the
\* result so far.
RECURSIVE EnvvarsLoop(_, _, _, _, _)
EnvvarsLoop(event, prefix, order, i, envvars) ==
    IF i > Len(order) THEN envvars
    ELSE IF order[i] \notin DOMAIN event
    THEN EnvvarsLoop(event, prefix, order, i + 1, envvars)
    ELSE
        LET k == EnvName(prefix, order[i])
            v == event[order[i]]
        IN  IF IsDict(v)
            THEN EnvvarsLoop(event, prefix, order, i + 1,
                     DictUpdate(envvars, EnvvarsLoop(v[2], k, order, 1, EmptyDict)))
            ELSE EnvvarsLoop(event, prefix, order, i + 1, DictSet(envvars, k, Str(v)))

envvars_for_event(event, prefix, order) == EnvvarsLoop(event, prefix, order, 1, EmptyDict)

DefaultPrefix == <<"SGEVENT">>

---------------------------------------------------------------------------
(* envvars_for_event: inputs and specification *)

MaxEntries == 2

EnvKeys == {<<"a">>, <<"A">>, <<"b">>, <<"a", "-", "b">>, <<"a", "_", "b">>}

KeyOrder == <<<<"a">>, <<"A">>, <<"b">>, <<"a", "-", "b">>, <<"a", "_", "b">>>>

\* The orders in which a dict may hand out its keys.
KeyOrders == {KeyOrder, [i \in 1..Len(KeyOrder) |-> KeyOrder[Len(KeyOrder) + 1 - i]]}

LeafValues == {PyInt(13), PyStr(<<"x">>)}

\* Key paths of depth one and two.
KeyPaths == {<<k>> : k \in EnvKeys} \cup {<<k, l>> : k \in EnvKeys, l \in EnvKeys}

\* The subsets of S of at most n elements.
RECURSIVE SubsetsUpTo(_, _)
SubsetsUpTo(S, n) ==
    IF n = 0 THEN {{}}
    ELSE LET smaller == SubsetsUpTo(S, n - 1) IN
         smaller \cup {T \cup {x} : T \in smaller, x \in S}

\* No key holds a value and a nested mapping at once.
PrefixFree(P) == \A p \in P, q \in P : Len(p) = 1 /\ Len(q) = 2 => p[1] # q[1]

\* What may stand at a path: a leaf, or (at depth one) an empty mapping.
ValuesAt(p) == IF Len(p) = 1 THEN LeafValues \cup {PyDict(EmptyDict)} ELSE LeafValues

\* Assignments of values to at most MaxEntries paths.
EntrySets ==
    UNION {{f \in [P -> LeafValues \cup {PyDict(EmptyDict)}] :
                \A p \in P : f[p] \in ValuesAt(p)} :
           P \in {Q \in SubsetsUpTo(KeyPaths, MaxEntries) : PrefixFree(Q)}}

\* The nested mapping that holds the entries f.
ToEvent(f) ==
    [k \in {p[1] : p \in DOMAIN f} |->
        IF <<k>> \in DOMAIN f THEN f[<<k>>]
        ELSE PyDict([l \in {p[2] : p \in {q \in DOMAIN f : Len(q) = 2 /\ q[1] = k}}
                        |-> f[<<k, l>>]])]

\* envvars_for_event(event), for the call that arg holds
EnvvarsForEvent ==
    /\ arg[1] = "envvars_for_event"
    /\ ret = NoCall
    /\ ret' = Return(PyDict(envvars_for_event(ToEvent(arg[2]), DefaultPrefix, arg[3])))
    /\ UNCHANGED <<specialization_classes, self, queries, sys_modules, loads, arg>>

InitEnvvars ==
    /\ specialization_classes = EmptyDict
    /\ self = NoEvent
    /\ queries = <<>>
    /\ sys_modules = EmptyDict
    /\ loads = <<>>
    /\ \E f \in EntrySets, order \in KeyOrders : arg = <<"envvars_for_event", f, order>>
    /\ ret = NoCall

NextEnvvars == EnvvarsForEvent

SpecEnvvars == InitEnvvars /\ [][NextEnvvars]_vars

---------------------------------------------------------------------------
(* Properties of envvars_for_event *)

\* The variable segment of each key, written out.
SegmentOf(k) ==
    CASE k = <<"a">> -> <<"A">>
      [] k = <<"A">> -> <<"A">>
      [] k = <<"b">> -> <<"B">>
      [] k = <<"a", "-", "b">> -> <<"A", "_", "B">>
      [] k = <<"a", "_", "b">> -> <<"A", "_", "B">>

\* prefix_K1_..._Kn for the key path p
VariableOf(p) ==
    IF Len(p) = 1 THEN DefaultPrefix \o <<"_">> \o SegmentOf(p[1])
    ELSE DefaultPrefix \o <<"_">> \o SegmentOf(p[1]) \o <<"_">> \o SegmentOf(p[2])

\* The key paths of f that end in a leaf.
Leaves(f) == {p \in DOMAIN f : ~IsDict(f[p])}

\* The text of a leaf value, written out.
TextOf(v) == IF v = PyInt(13) THEN <<"1", "3">> ELSE <<"x">>

\* C8 as stated: exactly one entry per leaf and no other, each leaf's variable
\* holding the leaf's text; no leaf is lost.
C8_OneEntryPerLeaf ==
    (arg[1] = "envvars_for_event" /\ ret # NoCall)
    => LET f == arg[2]
           envvars == ret[2][2]
       IN  /\ Cardinality(DOMAIN envvars) = Cardinality(Leaves(f))
           /\ DOMAIN envvars = {VariableOf(p) : p \in Leaves(f)}
           /\ \A p \in Leaves(f) : envvars[VariableOf(p)] = TextOf(f[p])

\* C8, amended: the result's names are exactly the variables of the leaves, nested
\* mappings giving none of their own; each name holds the text of a leaf that has
\* that variable; and when no two leaves share a variable there is exactly one
\* entry per leaf and none is lost.
C8_EntriesAreLeaves ==
    (arg[1] = "envvars_for_event" /\ ret # NoCall)
    => LET f == arg[2]
           envvars == ret[2][2]
       IN  /\ DOMAIN envvars = {VariableOf(p) : p \in Leaves(f)}
           /\ \A n \in DOMAIN envvars :
                \E p \in Leaves(f) : VariableOf(p) = n /\ envvars[n] = TextOf(f[p])
           /\ (\A p, q \in Leaves(f) : VariableOf(p) = VariableOf(q) => p = q)
              => /\ Cardinality(DOMAIN envvars) = Cardinality(Leaves(f))
                 /\ \A p \in Leaves(f) : envvars[VariableOf(p)] = TextOf(f[p])

\* C8, witness: a leaf under a nested mapping and a top-level leaf share a variable, and one
\* entry came out.
C8_Witness ==
    /\ arg[1] = "envvars_for_event"
    /\ ret # NoCall
    /\ Leaves(arg[2]) = {<<<<"a">>, <<"b">>>>, <<<<"a", "-", "b">>>>}
    /\ arg[2][<<<<"a">>, <<"b">>>>] # arg[2][<<<<"a", "-", "b">>>>]
    /\ Cardinality(DOMAIN ret[2][2]) = 1

====
